---- MODULE Spec2Model ----
(***************************************************************************)
(* A model of run_sextractor.py: the batch driver (main), the image        *)
(* discovery (find_images), the weight-image resolver (find_weight_image)  *)
(* and the per-image invocation (run_sextractor).                          *)
(*                                                                         *)
(* A string is a sequence of one-character strings, so that str.replace,   *)
(* Path.stem, os.path.dirname, os.path.join and the glob patterns are      *)
(* computed on the characters, as the code computes them.  The filesystem  *)
(* is POSIX (case-sensitive names, '/' separator).                         *)
(***************************************************************************)
EXTENDS Naturals, Sequences, FiniteSets, TLC

VARIABLES
    disk,           \* the files that exist: normalised paths relative to the working directory
    pc,             \* position of main(), or of the resolver run
    sextractor_ok,  \* main: check_sextractor() has been called and has returned True
    images,         \* main: the sorted list find_images() returned
    idx,            \* main: number of images the for loop has taken
    success_count,  \* main: success_count
    cmds,           \* the per-image invocations of "sex" issued so far, in order
    outcomes,       \* the outcome of each of those invocations
    exit_code,      \* the process exit status once the run has ended, else NoExit
    summary,        \* <<success_count, len(images)>> once the SUMMARY line is printed, else None
    query,          \* resolver run: the image_path given to find_weight_image
    answer          \* resolver run: what find_weight_image returned

vars == <<disk, pc, sextractor_ok, images, idx, success_count, cmds, outcomes, exit_code, summary, query, answer>>

None == <<"None">>
NoExit == "running"

----------------------------------------------------------------------------
(* Program constants *)

CONFIG_FILE == <<"d","e","f","a","u","l","t",".","s","e","x">>
PARAM_FILE == <<"d","e","f","a","u","l","t",".","p","a","r","a","m">>

\* a variant of IMAGE_EXTENSIONS without the upper-case patterns
IMAGE_EXTENSIONS_LowerCase == << <<".","f","i","t","s">>, <<".","f","i","t">> >>

\* IMAGE_EXTENSIONS: each pattern is "*" followed by one of these
IMAGE_EXTENSIONS ==
    << <<".","f","i","t","s">>, <<".","f","i","t">>,
       <<".","F","I","T","S">>, <<".","F","I","T">> >>

\* the two WEIGHT_TYPE values (strings of their own, like None: no path equals one)
MAP_RMS == <<"MAP_RMS">>
MAP_WEIGHT == <<"MAP_WEIGHT">>

\* WEIGHT_SUFFIXES[role]
WEIGHT_SUFFIXES(role) ==
    IF role = MAP_RMS
    THEN << <<"_","s","t","d","d","e","v">>, <<"_","s","t","d","e","v">>,
            <<"_","r","m","s">>, <<"_","u","n","c">>,
            <<"_","u","n","c","e","r","t">>, <<"_","s","i","g","m","a">> >>
    ELSE << <<"_","w","e","i","g","h","t">>, <<"_","w","h","t">>,
            <<"_","w","t">>, <<"_","i","v","a","r">> >>

\* the tuple (".fits", ".fit", ".FITS", ".FIT") of the four candidate loops
FILE_EXTS ==
    << <<".","f","i","t","s">>, <<".","f","i","t">>,
       <<".","F","I","T","S">>, <<".","F","I","T">> >>

uncertainty_names ==
    << <<"u","n","c">>, <<"s","t","d","d","e","v">>, <<"s","t","d","e","v">>,
       <<"r","m","s">>, <<"u","n","c","e","r","t">>, <<"s","i","g","m","a">> >>

weight_names ==
    << <<"w","e","i","g","h","t">>, <<"w","h","t">>, <<"w","t">>, <<"i","v","a","r">> >>

components_to_replace == << <<"-","i","n","t">>, <<"-","s","c","i">> >>

----------------------------------------------------------------------------
(* Strings and paths *)

\* s.startswith(p)
StartsWith(s, p) == Len(s) >= Len(p) /\ SubSeq(s, 1, Len(p)) = p

\* s.endswith(p)
EndsWith(s, p) == Len(s) >= Len(p) /\ SubSeq(s, Len(s) - Len(p) + 1, Len(s)) = p

\* sub in s
Contains(s, sub) ==
    \E k \in 1..(Len(s) + 1) : k + Len(sub) - 1 <= Len(s) /\ SubSeq(s, k, k + Len(sub) - 1) = sub

\* s.replace(old, new), old not empty: every occurrence, left to right, not overlapping
RECURSIVE Replace(_, _, _)
Replace(s, old, new) ==
    IF Len(s) < Len(old) THEN s
    ELSE IF SubSeq(s, 1, Len(old)) = old
         THEN new \o Replace(SubSeq(s, Len(old) + 1, Len(s)), old, new)
         ELSE <<s[1]>> \o Replace(Tail(s), old, new)

\* s.rfind(c) + 1: the position (from 1) of the last c in s, 0 when there is none
RECURSIVE LastIndexFrom(_, _, _)
LastIndexFrom(s, c, k) ==
    IF k = 0 THEN 0 ELSE IF s[k] = c THEN k ELSE LastIndexFrom(s, c, k - 1)

LastIndexOf(s, c) == LastIndexFrom(s, c, Len(s))

\* head.rstrip("/")
RECURSIVE RStripSlash(_)
RStripSlash(s) ==
    IF s # <<>> /\ s[Len(s)] = "/" THEN RStripSlash(SubSeq(s, 1, Len(s) - 1)) ELSE s

\* os.path.dirname(p)
Dirname(p) ==
    LET head == SubSeq(p, 1, LastIndexOf(p, "/"))
    IN  IF head # <<>> /\ \E k \in 1..Len(head) : head[k] # "/" THEN RStripSlash(head) ELSE head

\* the final component of a path
Basename(p) == SubSeq(p, LastIndexOf(p, "/") + 1, Len(p))

\* Path(p).stem: the final component without its last suffix; a leading or a
\* trailing dot starts no suffix
PathStem(p) ==
    LET name == Basename(p)
        dot == LastIndexOf(name, ".")
    IN  IF 1 < dot /\ dot < Len(name) THEN SubSeq(name, 1, dot - 1) ELSE name

\* os.path.join(a, b)
PathJoin(a, b) ==
    IF StartsWith(b, <<"/">>) THEN b
    ELSE IF a = <<>> \/ a[Len(a)] = "/" THEN a \o b
    ELSE a \o <<"/">> \o b

\* the file a relative path names: leading "./" components name the same file
RECURSIVE Normalize(_)
Normalize(p) == IF StartsWith(p, <<".", "/">>) THEN Normalize(SubSeq(p, 3, Len(p))) ELSE p

\* os.path.exists(p)
Exists(p) == Normalize(p) \in disk

----------------------------------------------------------------------------
(* find_weight_image *)

\* "for x in outer: for file_ext in FILE_EXTS": the candidate names in loop order
NestedLoop(stems) ==
    [k \in 1..(Len(stems) * Len(FILE_EXTS)) |->
        stems[((k - 1) \div Len(FILE_EXTS)) + 1] \o FILE_EXTS[((k - 1) % Len(FILE_EXTS)) + 1]]

\* Pattern 1: f"{stem}{suffix}{file_ext}" in image_dir, for each suffix of the role
SuffixCandidates(image_dir, stem, role) ==
    LET names == NestedLoop([k \in 1..Len(WEIGHT_SUFFIXES(role)) |-> stem \o WEIGHT_SUFFIXES(role)[k]])
    IN  [k \in 1..Len(names) |-> PathJoin(image_dir, names[k])]

\* a variant of ComponentCandidates that substitutes the bare name, without "-"
ComponentCandidates_NoDash(image_dir, stem, component, names) ==
    IF Contains(stem, component)
    THEN LET reps == NestedLoop([k \in 1..Len(names) |-> Replace(stem, component, names[k])])
         IN  [k \in 1..Len(reps) |-> PathJoin(image_dir, reps[k])]
    ELSE <<>>

\* a variant of ComponentCandidates without the test "if component in stem"
ComponentCandidates_NoGuard(image_dir, stem, component, names) ==
    LET reps == NestedLoop([k \in 1..Len(names) |-> Replace(stem, component, <<"-">> \o names[k])])
    IN  [k \in 1..Len(reps) |-> PathJoin(image_dir, reps[k])]

\* one "if component in stem:" block of Pattern 2
ComponentCandidates(image_dir, stem, component, names) ==
    IF Contains(stem, component)
    THEN LET reps == NestedLoop([k \in 1..Len(names) |-> Replace(stem, component, <<"-">> \o names[k])])
         IN  [k \in 1..Len(reps) |-> PathJoin(image_dir, reps[k])]
    ELSE <<>>

\* Pattern 2: "for component in components_to_replace:" over the blocks
RECURSIVE ReplacementFrom(_, _, _, _)
ReplacementFrom(image_dir, stem, names, c) ==
    IF c > Len(components_to_replace) THEN <<>>
    ELSE ComponentCandidates(image_dir, stem, components_to_replace[c], names)
            \o ReplacementFrom(image_dir, stem, names, c + 1)

ReplacementCandidates(image_dir, stem, names) == ReplacementFrom(image_dir, stem, names, 1)

\* "if os.path.exists(candidate): return": the first candidate that exists, else None
FirstExisting(cands) ==
    IF \E k \in 1..Len(cands) : Exists(cands[k])
    THEN cands[CHOOSE k \in 1..Len(cands) :
                 Exists(cands[k]) /\ \A m \in 1..(k - 1) : ~Exists(cands[m])]
    ELSE None

\* a variant of SearchOrder that tries the weight suffixes before the RMS suffixes
SearchOrder_WeightSuffixFirst(image_dir, stem, n) ==
    CASE n = 1 -> <<MAP_WEIGHT, SuffixCandidates(image_dir, stem, MAP_WEIGHT)>>
      [] n = 2 -> <<MAP_RMS, SuffixCandidates(image_dir, stem, MAP_RMS)>>
      [] n = 3 -> <<MAP_RMS, ReplacementCandidates(image_dir, stem, uncertainty_names)>>
      [] n = 4 -> <<MAP_WEIGHT, ReplacementCandidates(image_dir, stem, weight_names)>>

\* a variant of SearchOrder that tries both RMS patterns before both weight patterns
SearchOrder_RmsPatternsFirst(image_dir, stem, n) ==
    CASE n = 1 -> <<MAP_RMS, SuffixCandidates(image_dir, stem, MAP_RMS)>>
      [] n = 2 -> <<MAP_RMS, ReplacementCandidates(image_dir, stem, uncertainty_names)>>
      [] n = 3 -> <<MAP_WEIGHT, SuffixCandidates(image_dir, stem, MAP_WEIGHT)>>
      [] n = 4 -> <<MAP_WEIGHT, ReplacementCandidates(image_dir, stem, weight_names)>>

\* the four loops in the order the function runs them: the role a loop returns
\* and the candidates it tries
SearchOrder(image_dir, stem, n) ==
    CASE n = 1 -> <<MAP_RMS, SuffixCandidates(image_dir, stem, MAP_RMS)>>
      [] n = 2 -> <<MAP_WEIGHT, SuffixCandidates(image_dir, stem, MAP_WEIGHT)>>
      [] n = 3 -> <<MAP_RMS, ReplacementCandidates(image_dir, stem, uncertainty_names)>>
      [] n = 4 -> <<MAP_WEIGHT, ReplacementCandidates(image_dir, stem, weight_names)>>

\* the loops from the n-th on; "return None, None" after the last
RECURSIVE SearchFrom(_, _, _)
SearchFrom(image_dir, stem, n) ==
    IF n > 4 THEN <<None, None>>
    ELSE LET loop == SearchOrder(image_dir, stem, n)
             hit == FirstExisting(loop[2])
         IN  IF hit # None THEN <<loop[1], hit>> ELSE SearchFrom(image_dir, stem, n + 1)

find_weight_image(image_path) ==
    LET image_dir == IF Dirname(image_path) # <<>> THEN Dirname(image_path) ELSE <<".">>
        stem == PathStem(image_path)
    IN  SearchFrom(image_dir, stem, 1)

----------------------------------------------------------------------------
(* find_images *)

\* the pattern "*" + ext of glob: any name that ends with ext and is not hidden
GlobMatch(name, ext) == EndsWith(name, ext) /\ ~StartsWith(name, <<".">>)

\* the entries of a directory
ListDir(directory) ==
    {Basename(p) : p \in {q \in disk : Normalize(PathJoin(directory, Basename(q))) = q}}

\* ord() of the characters the names are made of
Ord(c) ==
    CASE c = "-" -> 45 [] c = "." -> 46 [] c = "/" -> 47
      [] c = "F" -> 70 [] c = "I" -> 73 [] c = "S" -> 83 [] c = "T" -> 84
      [] c = "_" -> 95 [] c = "a" -> 97 [] c = "c" -> 99 [] c = "d" -> 100
      [] c = "e" -> 101 [] c = "f" -> 102 [] c = "g" -> 103 [] c = "h" -> 104
      [] c = "i" -> 105 [] c = "l" -> 108 [] c = "m" -> 109 [] c = "n" -> 110
      [] c = "p" -> 112 [] c = "r" -> 114 [] c = "s" -> 115 [] c = "t" -> 116
      [] c = "u" -> 117 [] c = "w" -> 119 [] c = "x" -> 120

\* a < b for str
RECURSIVE StrLess(_, _)
StrLess(a, b) ==
    IF b = <<>> THEN FALSE
    ELSE IF a = <<>> THEN TRUE
    ELSE IF a[1] # b[1] THEN Ord(a[1]) < Ord(b[1])
    ELSE StrLess(Tail(a), Tail(b))

\* sorted(...) of a list without duplicates
RECURSIVE Sorted(_)
Sorted(S) ==
    IF S = {} THEN <<>>
    ELSE LET least == CHOOSE a \in S : \A b \in S \ {a} : StrLess(a, b)
         IN  <<least>> \o Sorted(S \ {least})

\* the four globs find no name twice (a name ends with one of the extensions
\* only), so the sorted list is the sorted set of the matches
find_images(directory) ==
    Sorted({PathJoin(directory, name) :
              name \in {n \in ListDir(directory) :
                          \E e \in 1..Len(IMAGE_EXTENSIONS) : GlobMatch(n, IMAGE_EXTENSIONS[e])}})

----------------------------------------------------------------------------
(* Bounds: the files a directory may hold *)

\* at most this many image-like files in the directory
MaxFiles == 3

DiskStems ==
    { <<"g">>,
      <<"g","-","i","n","t">>,
      <<"g","-","s","c","i">>,
      <<"g","-","i","n","t","_","u","n","c">>,
      <<"g","-","i","n","t","_","w","t">>,
      <<"g","-","u","n","c">>,
      <<"g","-","w","t">>,
      <<"g","_","w","t">> }

DiskExts == { <<".","f","i","t","s">>, <<".","F","I","T">> }

\* the names a file of the directory may have: images and companions in a
\* lower-case and an upper-case extension, one image in a third extension,
\* and one file that is no image
Universe ==
    {s \o e : s \in DiskStems, e \in DiskExts}
        \cup { <<"g","-","i","n","t",".","f","i","t">>, <<"g","-","u","n","c",".","t","x","t">> }

RECURSIVE SubsetsUpTo(_, _)
SubsetsUpTo(U, k) ==
    IF k = 0 THEN {{}}
    ELSE LET P == SubsetsUpTo(U, k - 1) IN P \cup {s \cup {x} : s \in P, x \in U}

\* how a run of the "sex" binary can end: exit status 0, a non-zero exit
\* status (CalledProcessError under check=True), or no such binary on the
\* PATH at that moment (FileNotFoundError)
SubprocessOutcomes == {"ok", "nonzero", "notfound"}

\* the image paths the resolver is asked about, and the directories they are in
QueryStems ==
    { <<"g">>, <<"g","-","i","n","t">>, <<"g","-","s","c","i">>,
      <<"g","-","i","n","t","_","u","n","c">> }
QueryNames == {s \o <<".","f","i","t","s">> : s \in QueryStems}
QueryDirs == { <<>>, <<"d">> }

----------------------------------------------------------------------------
(* main *)

Init ==
    /\ \E files \in SubsetsUpTo(Universe, MaxFiles), cfg \in SUBSET {CONFIG_FILE, PARAM_FILE} :
          disk = files \cup cfg
    /\ pc = "check_sextractor"
    /\ sextractor_ok = FALSE
    /\ images = <<>>
    /\ idx = 0
    /\ success_count = 0
    /\ cmds = <<>>
    /\ outcomes = <<>>
    /\ exit_code = NoExit
    /\ summary = None
    /\ query = None
    /\ answer = None

\* sys.exit(1) at the named place of main
SysExit1(place) ==
    /\ pc' = place
    /\ exit_code' = 1
    /\ UNCHANGED <<disk, images, idx, success_count, cmds, outcomes, summary, query, answer>>

Goto(label) ==
    /\ pc' = label
    /\ UNCHANGED <<disk, images, idx, success_count, cmds, outcomes, exit_code, summary, query, answer>>

\* the places where main ends the process with sys.exit(1)
FatalExits == {"exit_no_sextractor", "exit_no_config", "exit_no_param", "exit_no_images"}

\* check_sextractor(): True when "sex --version" exits 0; CalledProcessError and
\* FileNotFoundError are both caught and give False
check_sextractor(outcome) == outcome = "ok"

\* if not check_sextractor(): sys.exit(1)
CheckSextractor ==
    /\ pc = "check_sextractor"
    /\ \E outcome \in SubprocessOutcomes :
          /\ sextractor_ok' = check_sextractor(outcome)
          /\ IF sextractor_ok' THEN Goto("check_config") ELSE SysExit1("exit_no_sextractor")

\* a variant of CheckConfig that reports the missing file and goes on
CheckConfig_NoExit ==
    /\ pc = "check_config"
    /\ Goto("check_param")
    /\ UNCHANGED sextractor_ok

\* if not os.path.exists(CONFIG_FILE): sys.exit(1)
CheckConfig ==
    /\ pc = "check_config"
    /\ IF Exists(CONFIG_FILE) THEN Goto("check_param") ELSE SysExit1("exit_no_config")
    /\ UNCHANGED sextractor_ok

\* if not os.path.exists(PARAM_FILE): sys.exit(1)
CheckParam ==
    /\ pc = "check_param"
    /\ IF Exists(PARAM_FILE) THEN Goto("find_images") ELSE SysExit1("exit_no_param")
    /\ UNCHANGED sextractor_ok

\* images = find_images(); if not images: sys.exit(1); success_count = 0
FindImages ==
    /\ pc = "find_images"
    /\ images' = find_images(<<".">>)
    /\ IF images' = <<>>
       THEN /\ pc' = "exit_no_images"
            /\ exit_code' = 1
            /\ UNCHANGED success_count
       ELSE /\ pc' = "loop"
            /\ success_count' = 0
            /\ UNCHANGED exit_code
    /\ UNCHANGED <<disk, sextractor_ok, idx, cmds, outcomes, summary, query, answer>>

\* the command run_sextractor builds for an image
BuildCommand(image_path, config_file, output_dir) ==
    LET image_name == PathStem(image_path)
        weight == find_weight_image(image_path)
        found == weight[1] # None /\ weight[2] # None
    IN  [ image |-> image_path,
          config |-> config_file,
          catalog_name |-> PathJoin(output_dir, image_name \o <<".","c","a","t">>),
          check_image_name |-> PathJoin(output_dir, image_name \o <<"_","c","h","e","c","k",".","f","i","t","s">>),
          weight_type |-> IF found THEN weight[1] ELSE None,
          weight_image |-> IF found THEN weight[2] ELSE None ]

\* the exceptions run_sextractor's try statement catches
CaughtByRunSextractor == {"nonzero"}

\* one iteration of "for image in images": run_sextractor(image, CONFIG_FILE)
\* runs the command; exit status 0 returns True and counts, a caught exception
\* returns False, any other exception leaves run_sextractor and main
RunSextractor ==
    /\ pc = "loop"
    /\ idx < Len(images)
    /\ cmds' = Append(cmds, BuildCommand(images[idx + 1], CONFIG_FILE,
                                         <<"c","a","t","a","l","o","g","s">>))
    /\ \E outcome \in SubprocessOutcomes :
          /\ outcomes' = Append(outcomes, outcome)
          /\ IF outcome = "ok"
             THEN /\ success_count' = success_count + 1
                  /\ idx' = idx + 1
                  /\ UNCHANGED <<pc, exit_code>>
             ELSE IF outcome \in CaughtByRunSextractor
             THEN /\ idx' = idx + 1
                  /\ UNCHANGED <<pc, exit_code, success_count>>
             ELSE /\ pc' = "crashed"
                  /\ exit_code' = 1
                  /\ UNCHANGED <<idx, success_count>>
    /\ UNCHANGED <<disk, sextractor_ok, images, summary, query, answer>>

\* the SUMMARY line after the loop, and the normal end of the process
Summary ==
    /\ pc = "loop"
    /\ idx = Len(images)
    /\ summary' = <<success_count, Len(images)>>
    /\ pc' = "done"
    /\ exit_code' = 0
    /\ UNCHANGED <<disk, sextractor_ok, images, idx, success_count, cmds, outcomes, query, answer>>

Next == CheckSextractor \/ CheckConfig \/ CheckParam \/ FindImages \/ RunSextractor \/ Summary

Spec == Init /\ [][Next]_vars

----------------------------------------------------------------------------
(* find_weight_image on its own: any image path, any directory content *)

InitResolver ==
    /\ \E files \in SubsetsUpTo(Universe, MaxFiles), d \in QueryDirs, n \in QueryNames :
          /\ disk = {Normalize(PathJoin(d, f)) : f \in files}
          /\ query = PathJoin(d, n)
    /\ pc = "resolve"
    /\ sextractor_ok = FALSE
    /\ images = <<>>
    /\ idx = 0
    /\ success_count = 0
    /\ cmds = <<>>
    /\ outcomes = <<>>
    /\ exit_code = NoExit
    /\ summary = None
    /\ answer = None

Resolve ==
    /\ pc = "resolve"
    /\ answer' = find_weight_image(query)
    /\ pc' = "resolved"
    /\ UNCHANGED <<disk, sextractor_ok, images, idx, success_count, cmds, outcomes, exit_code, summary, query>>

NextResolver == Resolve

SpecResolver == InitResolver /\ [][NextResolver]_vars

----------------------------------------------------------------------------
(* The resolver's claims, stated on the sets of names the patterns describe *)

Resolved == pc = "resolved"

\* the directory D and the stem S of the image asked about
QDir == IF Dirname(query) = <<>> THEN <<".">> ELSE Dirname(query)
QStem == PathStem(query)

Role(r) == IF r = 1 THEN MAP_RMS ELSE MAP_WEIGHT
Names(r) == IF r = 1 THEN uncertainty_names ELSE weight_names

\* d/s<suffix><ext> for the i-th suffix of a role and the j-th extension
SuffixFileIn(d, s, r, ij) == PathJoin(d, s \o WEIGHT_SUFFIXES(Role(r))[ij[1]] \o FILE_EXTS[ij[2]])

\* D/S<suffix><ext>
SuffixFile(r, ij) == SuffixFileIn(QDir, QStem, r, ij)

SuffixIndex(r) == (1..Len(WEIGHT_SUFFIXES(Role(r)))) \X (1..Len(FILE_EXTS))

\* the (suffix, extension) pairs of a role whose file D/S<suffix><ext> exists
ExistingSuffix(r) ==
    LET d == QDir
        s == QStem
    IN  {ij \in SuffixIndex(r) : Exists(SuffixFileIn(d, s, r, ij))}

SomeSuffixFile(r) == ExistingSuffix(r) # {}

\* (i, j) comes before (i2, j2) in suffix order, then extension order
PairBefore(a, b) == a[1] < b[1] \/ (a[1] = b[1] /\ a[2] < b[2])

\* s with the marker x[2] substituted by "-<name x[3]>", plus the extension x[4], in d
RepFileIn(d, s, x) ==
    PathJoin(d, Replace(s, components_to_replace[x[2]], <<"-">> \o Names(x[1])[x[3]]) \o FILE_EXTS[x[4]])

\* the same for D and S
RepFile(x) == RepFileIn(QDir, QStem, x)

\* the substitutions that apply to S: role, marker (one S contains), name, extension
ReplacementIndex ==
    LET s == QStem
        markers == {c \in 1..Len(components_to_replace) : Contains(s, components_to_replace[c])}
    IN  {x \in (1..2) \X markers \X (1..Len(uncertainty_names)) \X (1..Len(FILE_EXTS)) :
            x[3] <= Len(Names(x[1]))}

\* the substitutions whose file exists
ExistingReplacement ==
    LET d == QDir
        s == QStem
    IN  {x \in ReplacementIndex : Exists(RepFileIn(d, s, x))}

\* x comes before y: uncertainty names before weight names, then marker, name, extension
QuadBefore(x, y) ==
    \E k \in 1..4 : x[k] < y[k] /\ \A m \in 1..(k - 1) : x[m] = y[m]

SomeReplacementFile == ExistingReplacement # {}

\* C1 as stated: every existing RMS-suffix file D/S<suffix><ext> is what the
\* resolver returns, with the role MAP_RMS
C1_EveryRmsSuffixFileReturned ==
    Resolved =>
        \A ij \in ExistingSuffix(1) : answer = <<MAP_RMS, SuffixFile(1, ij)>>

\* C1 amended: when an RMS-suffix file D/S<suffix><ext> exists, the resolver
\* returns MAP_RMS paired with the first existing one in suffix order, then
\* extension order (that exact path when it is the only one), also when a
\* weight-suffix file exists
C1_FirstRmsSuffixFileReturned ==
    Resolved =>
        LET existing == ExistingSuffix(1)
        IN  /\ \A ij \in existing :
                  (\A b \in existing : ~PairBefore(b, ij)) => answer = <<MAP_RMS, SuffixFile(1, ij)>>
            /\ existing # {} => answer[1] = MAP_RMS

\* C1 witness: two RMS-suffix files and a weight-suffix file exist, and the
\* resolver has answered MAP_RMS
C1_Witness ==
    /\ Resolved
    /\ Cardinality(ExistingSuffix(1)) = 2
    /\ SomeSuffixFile(2)
    /\ answer[1] = MAP_RMS

\* C2: whenever a suffix-pattern file (of either role) exists, the returned
\* path is a suffix-pattern candidate and no substring-replacement candidate;
\* an existing weight-suffix file wins over an existing RMS replacement file
C2_SuffixBeforeReplacement ==
    Resolved =>
        LET rms == ExistingSuffix(1)
            weight == ExistingSuffix(2)
        IN  /\ (rms # {} \/ weight # {}) =>
                  /\ \E r \in 1..2 : \E ij \in SuffixIndex(r) : answer[2] = SuffixFile(r, ij)
                  /\ \A x \in ReplacementIndex : answer[2] # RepFile(x)
            /\ (weight # {} /\ rms = {}) =>
                  /\ answer[1] = MAP_WEIGHT
                  /\ \E ij \in weight : answer[2] = SuffixFile(2, ij)

\* C2 witness: a weight-suffix file and an RMS replacement file exist, no
\* RMS-suffix file does, and the resolver has answered MAP_WEIGHT
C2_Witness ==
    /\ Resolved
    /\ SomeSuffixFile(2)
    /\ ~SomeSuffixFile(1)
    /\ \E x \in ExistingReplacement : x[1] = 1
    /\ answer[1] = MAP_WEIGHT

\* C3 as stated: with a marker in the stem and no suffix-pattern file, every
\* existing replacement file is what the resolver returns, with its role
C3_EveryReplacementFileReturned ==
    (Resolved /\ ~SomeSuffixFile(1) /\ ~SomeSuffixFile(2)) =>
        \A x \in ExistingReplacement : answer = <<Role(x[1]), RepFile(x)>>

\* C3 amended: with a marker in the stem and no suffix-pattern file, when a
\* replacement file exists the resolver returns the first existing one, with
\* its role, in the order: uncertainty names before weight names, then the
\* marker ('-int' before '-sci'), the name and the extension; a file that is
\* no candidate of the stem is ignored
C3_FirstReplacementFileReturned ==
    (Resolved /\ ~SomeSuffixFile(1) /\ ~SomeSuffixFile(2)) =>
        LET existing == ExistingReplacement
        IN  \A x \in existing :
                (\A y \in existing : ~QuadBefore(y, x)) => answer = <<Role(x[1]), RepFile(x)>>

\* C3 witness: the example of the claim, stem g-int with g-unc.fits and
\* g_wt.fits in the directory: the answer is (MAP_RMS, g-unc.fits)
C3_Witness ==
    /\ Resolved
    /\ QStem = <<"g","-","i","n","t">>
    /\ Exists(PathJoin(QDir, <<"g","-","u","n","c",".","f","i","t","s">>))
    /\ Exists(PathJoin(QDir, <<"g","_","w","t",".","f","i","t","s">>))
    /\ answer = <<MAP_RMS, PathJoin(QDir, <<"g","-","u","n","c",".","f","i","t","s">>)>>

\* C4: when no suffix-pattern file and no replacement file exists the resolver
\* returns (None, None); so it does for a stem with neither marker and no
\* suffix-pattern file, whatever else the directory holds
C4_NoCompanion ==
    (Resolved /\ ~SomeSuffixFile(1) /\ ~SomeSuffixFile(2)) =>
        /\ ~SomeReplacementFile => answer = <<None, None>>
        /\ (\A c \in 1..Len(components_to_replace) : ~Contains(QStem, components_to_replace[c]))
              => answer = <<None, None>>

\* C4 witness: a stem without marker, the image itself and two other files in
\* the directory, and the answer (None, None)
C4_Witness ==
    /\ Resolved
    /\ \A c \in 1..Len(components_to_replace) : ~Contains(QStem, components_to_replace[c])
    /\ Exists(query)
    /\ Cardinality(disk) = 3
    /\ answer = <<None, None>>

----------------------------------------------------------------------------
(* The batch run's claims *)

\* the run has passed the four preflight checks
PreflightPassed == pc \in {"loop", "done", "crashed"}

\* the process has ended
Ended == pc \in FatalExits \cup {"done", "crashed"}

\* the number of invocations so far that did not end with exit status 0
Failures == Cardinality({k \in 1..Len(outcomes) : outcomes[k] # "ok"})

\* C5 as stated: a run that passed the preflight and has ended has attempted
\* every discovered image and its summary reports N-M successes out of N
C5_AllAttemptedAndCounted ==
    (PreflightPassed /\ Ended) =>
        /\ Len(cmds) = Len(images)
        /\ \A k \in 1..Len(images) : cmds[k].image = images[k]
        /\ summary = <<Len(images) - Failures, Len(images)>>

\* C6 as stated: the exit status is non-zero exactly when the binary was
\* missing at the check, default.sex or default.param is absent, or no image
\* was found; every other run exits 0, however many images failed
C6_ExitCode ==
    Ended => (exit_code # 0 <=> pc \in FatalExits)

\* C7: an image is handed to the extraction tool only after all four
\* preflight checks have passed, and a run that ends at a fatal condition has
\* made no per-image invocation
C7_NoInvocationBeforePreflight ==
    /\ cmds # <<>> =>
          /\ sextractor_ok
          /\ Exists(CONFIG_FILE)
          /\ Exists(PARAM_FILE)
          /\ images # <<>>
    /\ (~sextractor_ok \/ ~Exists(CONFIG_FILE) \/ ~Exists(PARAM_FILE) \/ pc \in FatalExits) => cmds = <<>>

\* C7 witness: the run has invoked the tool for an image
C7_Witness == Len(cmds) >= 2 /\ pc = "done"

\* C8 as stated: every invocation that does not exit 0, a non-zero exit or the
\* binary not found then, fails its image only: nothing is counted for it and
\* the loop goes on to the next image
C8_FailureIsPerImage ==
    PreflightPassed =>
        /\ success_count = Len(outcomes) - Failures
        /\ \A k \in 1..Len(outcomes) : outcomes[k] # "ok" => (idx >= k /\ pc # "crashed")

\* C9 as stated: each processed image gets catalogs/<stem>.cat and
\* catalogs/<stem>_check.fits, and no two distinct images of a run get the
\* same catalog path
C9_OneCatalogPerImage ==
    \A k \in 1..Len(cmds) :
        /\ cmds[k].catalog_name =
              <<"c","a","t","a","l","o","g","s","/">> \o PathStem(cmds[k].image) \o <<".","c","a","t">>
        /\ cmds[k].check_image_name =
              <<"c","a","t","a","l","o","g","s","/">> \o PathStem(cmds[k].image)
                  \o <<"_","c","h","e","c","k",".","f","i","t","s">>
        /\ \A m \in 1..Len(cmds) :
              cmds[k].image # cmds[m].image => cmds[k].catalog_name # cmds[m].catalog_name

====
